---- MODULE Spec2Model ----
(***************************************************************************)
(* ecs-auto-draining: a Lambda function (main.go) that drains the ECS      *)
(* container instance of an EC2 instance being terminated by AutoScaling,  *)
(* and the Step Functions state machine of the SAM template that polls it. *)
(*                                                                         *)
(* Every AWS SDK call of main.go is one atomic step of the handler; the    *)
(* cloud (container instances, tasks, user data) is state that the         *)
(* handler reads and writes through those calls, and tasks stop on their   *)
(* own between the calls.                                                  *)
(***************************************************************************)
EXTENDS Integers, Sequences, FiniteSets, TLC

(***************************************************************************)
(* Bounds of the model.                                                    *)
(***************************************************************************)
\* container instances registered in the account
MaxCI == 2
\* tasks known to ECS
MaxTasks == 2
\* ARNs per page of a List* call
PageSize == 1
\* invocations of the function in one execution
MaxInvocations == 2
\* tokens of a user data text
MaxUserDataLen == 3

(***************************************************************************)
(* Constants of main.go.                                                   *)
(***************************************************************************)
DetailTypeTerminateLifecycle == "EC2 Instance-terminate Lifecycle Action"
LifecycleTransitionTerminating == "autoscaling:EC2_INSTANCE_TERMINATING"
ContainerInstanceStatusDraining == "DRAINING"
ContainerInstanceStatusActive == "ACTIVE"

(***************************************************************************)
(* JSON values of the detail payload: a typed scalar <<type, text>>.       *)
(***************************************************************************)
JStr(s) == <<"string", s>>
JBool(b) == <<"bool", IF b THEN "true" ELSE "false">>
JNull == <<"null", "null">>

\* The fields of CloudWatchEventDetail, in declaration order.
StringFields == {"AutoScalingGroupName", "EC2InstanceId", "LifecycleActionToken",
                 "LifecycleHookName", "LifecycleTransition"}
StructFields == StringFields \cup {"Wait"}

\* The zero value of CloudWatchEventDetail.
ZeroDetail == [AutoScalingGroupName |-> "", EC2InstanceId |-> "",
               LifecycleActionToken |-> "", LifecycleHookName |-> "",
               LifecycleTransition |-> "", Wait |-> FALSE]

\* A raw JSON text (json.RawMessage): empty (the event has no detail key),
\* the literal null, or an object. The Lambda runtime has decoded the event,
\* so the text is valid JSON and logEvent's json.Marshal(evt) succeeds.
EmptyObj == [k \in {} |-> JNull]
RawAbsent == [kind |-> "absent", obj |-> EmptyObj]
RawNull == [kind |-> "null", obj |-> EmptyObj]
RawObject(o) == [kind |-> "object", obj |-> o]

\* encoding/json decoding of one struct field of Go type `want` from object o:
\* an absent key or a null leaves the zero value, a value of another JSON type
\* is an UnmarshalTypeError.
FieldTypeError(o, k, want) ==
    /\ k \in DOMAIN o
    /\ o[k][1] # "null"
    /\ o[k][1] # want

StringField(o, k) ==
    IF k \in DOMAIN o /\ o[k][1] = "string" THEN o[k][2] ELSE ""

BoolField(o, k) ==
    IF k \in DOMAIN o /\ o[k][1] = "bool" THEN o[k][2] = "true" ELSE FALSE

\* json.Unmarshal(raw, &evtDetail) with evtDetail a nil *CloudWatchEventDetail:
\* err (an empty text is an unexpected end of JSON input), or a nil pointer
\* left nil by the literal null, or a fresh struct holding the declared
\* fields (keys that the struct does not declare are dropped).
Unmarshal(raw) ==
    IF raw.kind = "absent"
    THEN [err |-> TRUE, isNil |-> TRUE, v |-> ZeroDetail]
    ELSE IF raw.kind = "null"
    THEN [err |-> FALSE, isNil |-> TRUE, v |-> ZeroDetail]
    ELSE IF \/ \E k \in StringFields : FieldTypeError(raw.obj, k, "string")
            \/ FieldTypeError(raw.obj, "Wait", "bool")
    THEN [err |-> TRUE, isNil |-> TRUE, v |-> ZeroDetail]
    ELSE [err |-> FALSE, isNil |-> FALSE,
          v |-> [AutoScalingGroupName |-> StringField(raw.obj, "AutoScalingGroupName"),
                 EC2InstanceId |-> StringField(raw.obj, "EC2InstanceId"),
                 LifecycleActionToken |-> StringField(raw.obj, "LifecycleActionToken"),
                 LifecycleHookName |-> StringField(raw.obj, "LifecycleHookName"),
                 LifecycleTransition |-> StringField(raw.obj, "LifecycleTransition"),
                 Wait |-> BoolField(raw.obj, "Wait")]]

\* A variant of Marshal that leaves out a false Wait (a field tagged
\* omitempty).
Marshal_OmitEmpty(d) ==
    RawObject([k \in StringFields \cup (IF d.Wait THEN {"Wait"} ELSE {}) |->
                  IF k = "Wait" THEN JBool(d.Wait) ELSE JStr(d[k])])

\* A variant of Marshal that leaves a field out (a field tagged json:"-").
Marshal_OmitToken(d) ==
    RawObject([k \in StructFields \ {"LifecycleActionToken"} |->
                  IF k = "Wait" THEN JBool(d.Wait) ELSE JStr(d[k])])

\* json.Marshal(evtDetail): an object with exactly the six declared fields.
Marshal(d) ==
    RawObject([k \in StructFields |->
                  IF k = "Wait" THEN JBool(d.Wait) ELSE JStr(d[k])])

(***************************************************************************)
(* User data and the cluster name (getUserData, getECSClusterName).        *)
(* A user data text is a sequence of tokens: the literal "ECS_CLUSTER=", a *)
(* word (a run of \w characters), a hyphen, or a blank (any other          *)
(* character).                                                             *)
(***************************************************************************)
KeyToken == "ECS_CLUSTER="
WordTokens == {"c1"}
Tokens == {KeyToken, "-", " "} \cup WordTokens

RECURSIVE SeqsUpTo(_, _)
SeqsUpTo(S, n) ==
    IF n = 0 THEN {<<>>}
    ELSE LET shorter == SeqsUpTo(S, n - 1)
         IN shorter \cup {Append(q, x) : q \in {r \in shorter : Len(r) = n - 1}, x \in S}

UserDataTexts == SeqsUpTo(Tokens, MaxUserDataLen)

\* The value of the userData attribute: absent, or a base64 string that
\* decodes to text, or a string that is no base64 at all.
NoUserData == [hasValue |-> FALSE, base64 |-> FALSE, text |-> <<>>]
BadBase64 == [hasValue |-> TRUE, base64 |-> FALSE, text |-> <<>>]
Base64Of(text) == [hasValue |-> TRUE, base64 |-> TRUE, text |-> text]
UserDataValues == {NoUserData, BadBase64} \cup {Base64Of(t) : t \in UserDataTexts}

\* \b before the E of ECS_CLUSTER= : the start of the text or a non-word
\* character (the key token itself ends in "=").
WordBoundaryBefore(text, i) == i = 1 \/ text[i - 1] \notin WordTokens

\* ([-\w]+) from position j on, greedy: words and hyphens, and the word
\* characters "ECS_CLUSTER" of a following key token, whose "=" ends the run.
RECURSIVE CaptureName(_, _)
CaptureName(text, j) ==
    IF j > Len(text) \/ text[j] = " " THEN <<>>
    ELSE IF text[j] = KeyToken THEN <<"ECS_CLUSTER">>
    ELSE <<text[j]>> \o CaptureName(text, j + 1)

\* Positions where \bECS_CLUSTER=([-\w]+) matches.
MatchPositions(text) ==
    {i \in 1..Len(text) : /\ text[i] = KeyToken
                          /\ WordBoundaryBefore(text, i)
                          /\ CaptureName(text, i + 1) # <<>>}

Min(S) == CHOOSE x \in S : \A y \in S : x <= y

\* ecsClusterRegexp.FindStringSubmatch(userData): the leftmost match; the
\* result is <<>> without a match and <<whole match, group 1>> with one
\* (Go's matches[0] and matches[1]).
FindStringSubmatch(text) ==
    IF MatchPositions(text) = {} THEN <<>>
    ELSE LET name == CaptureName(text, Min(MatchPositions(text)) + 1)
         IN <<(<<KeyToken>> \o name), name>>

\* getUserData's outcome for an attribute value returned by EC2.
GetUserDataResult(attr) ==
    IF ~attr.hasValue THEN [err |-> "NoUserData", text |-> <<>>]
    ELSE IF ~attr.base64 THEN [err |-> "Base64", text |-> <<>>]
    ELSE [err |-> "", text |-> attr.text]

\* A variant of getECSClusterName that falls back to the cluster "default".
GetECSClusterNameResult_Default(attr) ==
    LET ud == GetUserDataResult(attr)
        matches == FindStringSubmatch(ud.text)
    IN IF Len(matches) = 0 THEN [err |-> "", name |-> <<"default">>]
       ELSE [err |-> "", name |-> matches[2]]

\* getECSClusterName's outcome once DescribeInstanceAttribute has succeeded.
GetECSClusterNameResult(attr) ==
    LET ud == GetUserDataResult(attr)
        matches == FindStringSubmatch(ud.text)
    IN IF ud.err # "" THEN [err |-> ud.err, name |-> <<>>]
       ELSE IF Len(matches) = 0 THEN [err |-> "NoClusterInUserData", name |-> <<>>]
       ELSE [err |-> "", name |-> matches[2]]

(***************************************************************************)
(* Events.                                                                 *)
(***************************************************************************)
\* events.CloudWatchEvent: the envelope and the raw detail.
Event(detailType, detail) ==
    [ID |-> "event-1", Source |-> "aws.autoscaling",
     DetailType |-> detailType, Detail |-> detail]

EnvelopeFields == {"ID", "Source", "DetailType"}

\* A handler that returns an error returns no event.
NoEvent == Event("", RawNull)

TheInstanceId == "i-1"
EC2Ids == {"i-1", "i-2"}

BaseDetail ==
    [k \in {"AutoScalingGroupName", "EC2InstanceId", "LifecycleActionToken",
            "LifecycleHookName"} |->
        CASE k = "AutoScalingGroupName" -> JStr("asg")
          [] k = "EC2InstanceId" -> JStr(TheInstanceId)
          [] k = "LifecycleActionToken" -> JStr("token")
          [] k = "LifecycleHookName" -> JStr("hook")]

TransitionOptions ==
    {EmptyObj,
     "LifecycleTransition" :> JStr(LifecycleTransitionTerminating),
     "LifecycleTransition" :> JStr("autoscaling:EC2_INSTANCE_LAUNCHING")}

WaitOptions ==
    {EmptyObj, "Wait" :> JBool(TRUE), "Wait" :> JBool(FALSE), "Wait" :> JStr("true")}

\* A key that CloudWatchEventDetail does not declare; AutoScaling sends it
\* when the lifecycle hook has notification metadata.
MetadataOptions == {EmptyObj, "NotificationMetadata" :> JStr("meta")}

\* The detail payloads: objects sent by AutoScaling (no Wait, maybe
\* metadata), objects returned by an earlier invocation (Wait, no metadata),
\* and events without a detail object.
DetailObjects ==
    {BaseDetail @@ t @@ w @@ m :
        t \in TransitionOptions, w \in WaitOptions, m \in MetadataOptions}

Details ==
    {RawAbsent, RawNull} \cup
    {RawObject(o) : o \in {d \in DetailObjects :
                              ~("Wait" \in DOMAIN d /\ "NotificationMetadata" \in DOMAIN d)}}

DetailTypes == {DetailTypeTerminateLifecycle, "EC2 Instance-launch Lifecycle Action"}

Events == {Event(dt, d) : dt \in DetailTypes, d \in Details}

(***************************************************************************)
(* The cloud: container instances and tasks.                               *)
(***************************************************************************)
ContainerInstances == 1..MaxCI      \* container instance ARNs
Tasks == 1..MaxTasks                \* task ARNs
TheCluster == <<"c1">>              \* the cluster the instances are registered in

ContainerInstanceStatuses == {ContainerInstanceStatusActive, ContainerInstanceStatusDraining}

\* ECS has further statuses, of instances that are being registered or
\* deregistered.
AllContainerInstanceStatuses == ContainerInstanceStatuses \cup {"REGISTERING"}

\* A task: the container instance it is placed on, its desired and its last
\* status; a stopped task is forgotten by ECS after a while.
TaskStates ==
    [present : {TRUE}, ci : ContainerInstances,
     desired : {"RUNNING", "STOPPED"}, last : {"RUNNING", "STOPPED"}]
GoneTask == [present |-> FALSE, ci |-> 1, desired |-> "STOPPED", last |-> "STOPPED"]

RECURSIVE SortedSeq(_)
SortedSeq(S) ==
    IF S = {} THEN <<>> ELSE <<Min(S)>> \o SortedSeq(S \ {Min(S)})

\* The pages a paginated List* call delivers for a result list: PageSize
\* ARNs a page, one empty page for an empty list.
RECURSIVE Pages(_)
Pages(list) ==
    IF Len(list) <= PageSize THEN <<list>>
    ELSE <<SubSeq(list, 1, PageSize)>> \o Pages(SubSeq(list, PageSize + 1, Len(list)))

\* A variant of CollectPages that keeps a non-empty first page only.
CollectPages_First(pages) ==
    IF pages = <<>> THEN <<>>
    ELSE IF Len(Head(pages)) > 0 THEN <<Head(pages)>>
    ELSE <<>>

\* The page callbacks of getContainerInstance and taskExists keep the
\* non-empty pages.
RECURSIVE CollectPages(_)
CollectPages(pages) ==
    IF pages = <<>> THEN <<>>
    ELSE IF Len(Head(pages)) > 0 THEN <<Head(pages)>> \o CollectPages(Tail(pages))
    ELSE CollectPages(Tail(pages))

(***************************************************************************)
(* State.                                                                  *)
(***************************************************************************)
VARIABLES
    \* the cloud
    userData,           \* the userData attribute of the EC2 instance of the event
    ciEc2,              \* container instance ARN -> EC2 instance id
    ciStatus,           \* container instance ARN -> status
    tasks,              \* task ARN -> task
    lifecycle,          \* the lifecycle action: heartbeats recorded (counted up to
                        \* MaxInvocations), completed or not
    \* the execution of the state machine
    smState,            \* the current state, or how the execution ended
    smData,             \* the JSON document passed from state to state
    \* one invocation of handler
    pc,                 \* where the invocation stands
    evt,                \* handler's evt
    evtDetail,          \* handler's evtDetail
    clusterName,        \* handler's clusterName
    arrayOfArns,        \* arrayOfArns of getContainerInstance, then of taskExists
    containerInstance,  \* handler's containerInstance
    exists,             \* handler's exists
    result,             \* what handler returned
    \* history
    input,              \* the event the current invocation was started with
    calls,              \* the SDK calls of the current invocation, in order
    nInvocations,       \* invocations started in this execution
    nUpdateCalls,       \* UpdateContainerInstancesState calls made in this execution
    twin                \* the first of two invocations started from one cloud state

cloudVars == <<userData, ciEc2, ciStatus, tasks, lifecycle>>
smVars == <<smState, smData>>
localVars == <<evt, evtDetail, clusterName, arrayOfArns, containerInstance, exists>>
vars == <<userData, ciEc2, ciStatus, tasks, lifecycle, smState, smData, pc, evt,
          evtDetail, clusterName, arrayOfArns, containerInstance, exists, result,
          input, calls, nInvocations, nUpdateCalls, twin>>

NoContainerInstance == [arn |-> 0, ec2 |-> "", status |-> ""]
NoResult == [kind |-> "none", err |-> "", evt |-> NoEvent]
ErrorResult(e) == [kind |-> "error", err |-> e, evt |-> NoEvent]
PanicResult == [kind |-> "panic", err |-> "nil pointer dereference", evt |-> NoEvent]
EventResult(e) == [kind |-> "event", err |-> "", evt |-> e]

\* No invocation has been set aside for a comparison.
NoTwin ==
    [phase |-> 0, input |-> NoEvent, calls |-> <<>>, result |-> NoResult,
     ciStatus |-> <<>>, lifecycle |-> [heartbeats |-> 0, completed |-> FALSE]]

\* A task as the tasks variable holds it at Init: running, being stopped, or
\* stopped and still listed.
InitialTaskStates == {t \in TaskStates : t.desired = "RUNNING" => t.last = "RUNNING"}

(***************************************************************************)
(* The AWS APIs, as functions of the cloud state.                          *)
(***************************************************************************)
Call(api, ok, arg, out) == [api |-> api, ok |-> ok, arg |-> arg, out |-> out]

\* ec2:DescribeInstanceAttribute(userData)
DescribeInstanceAttributeOutput(instanceID) == userData

\* ecs:ListContainerInstances, all pages
ListContainerInstancesOutput(cluster) ==
    Pages(SortedSeq({c \in ContainerInstances : cluster = TheCluster}))

\* ecs:DescribeContainerInstances
DescribeContainerInstancesOutput(cluster, arns) ==
    [i \in 1..Len(arns) |->
        [arn |-> arns[i], ec2 |-> ciEc2[arns[i]], status |-> ciStatus[arns[i]]]]

\* ecs:ListTasks filtered by container instance and desired status
ListedTasks(cluster, ciArn, desiredStatus) ==
    SortedSeq({t \in Tasks : /\ cluster = TheCluster
                             /\ tasks[t].present
                             /\ tasks[t].ci = ciArn
                             /\ tasks[t].desired = desiredStatus})

\* ecs:DescribeTasks: the tasks ECS still knows, in the order asked for
DescribeTasksOutput(cluster, arns) ==
    LET known == SelectSeq(arns, LAMBDA t : tasks[t].present)
    IN [i \in 1..Len(known) |-> [arn |-> known[i], lastStatus |-> tasks[known[i]].last]]

(***************************************************************************)
(* handler, step by step.                                                  *)
(***************************************************************************)
\* A return of handler: the result is set and the locals are gone.
Finish(res) ==
    /\ pc' = "done"
    /\ result' = res
    /\ evt' = NoEvent
    /\ evtDetail' = ZeroDetail
    /\ clusterName' = <<>>
    /\ arrayOfArns' = <<>>
    /\ containerInstance' = NoContainerInstance
    /\ exists' = FALSE

\* Lines 43-59 of handler: the checks made before the first SDK call
\* (logEvent does not fail on a decoded event). The outcome is a result to
\* return, or NoResult and the decoded detail.
Validate(e) ==
    IF e.DetailType # DetailTypeTerminateLifecycle
    THEN [res |-> ErrorResult("detail-type"), detail |-> ZeroDetail]
    ELSE LET u == Unmarshal(e.Detail)
         IN IF u.err THEN [res |-> ErrorResult("unmarshal"), detail |-> ZeroDetail]
            ELSE IF u.isNil THEN [res |-> PanicResult, detail |-> ZeroDetail]
            ELSE IF u.v.LifecycleTransition # LifecycleTransitionTerminating
            THEN [res |-> ErrorResult("LifecycleTransition"), detail |-> ZeroDetail]
            ELSE [res |-> NoResult, detail |-> u.v]

\* The user data of an instance launched into TheCluster.
ClusterUserData == Base64Of(<<KeyToken, "c1">>)

\* An event that AutoScaling sends for a terminating instance, or that an
\* earlier invocation returned for one.
OrdinaryEvent(e) ==
    /\ e.DetailType = DetailTypeTerminateLifecycle
    /\ e.Detail.kind = "object"
    /\ "LifecycleTransition" \in DOMAIN e.Detail.obj
    /\ e.Detail.obj["LifecycleTransition"] = JStr(LifecycleTransitionTerminating)
    /\ "Wait" \in DOMAIN e.Detail.obj => e.Detail.obj["Wait"][1] = "bool"

\* The ordinary cloud of an execution that does not get to read it: every
\* container instance is ACTIVE and registered for the instance of the
\* event, and all tasks run on the first one.
OrdinaryEc2 == [c \in ContainerInstances |-> TheInstanceId]
OrdinaryStatus == [c \in ContainerInstances |-> ContainerInstanceStatusActive]
RunningTasks ==
    [t \in Tasks |-> [present |-> TRUE, ci |-> 1, desired |-> "RUNNING", last |-> "RUNNING"]]

\* The execution starts with any event and any user data, one of them
\* ordinary, over the ordinary cloud; or with an ordinary event and ordinary
\* user data over any container instances and any tasks, all placed on one
\* of the container instances.
Init ==
    /\ userData \in UserDataValues
    /\ smData \in Events
    /\ userData = ClusterUserData \/ OrdinaryEvent(smData)
    /\ IF userData = ClusterUserData /\ OrdinaryEvent(smData)
       THEN /\ ciEc2 \in [ContainerInstances -> EC2Ids]
            /\ ciStatus \in [ContainerInstances -> ContainerInstanceStatuses]
            /\ tasks \in [Tasks -> InitialTaskStates]
            /\ \A t \in Tasks : tasks[t].ci = tasks[1].ci
       ELSE /\ ciEc2 = OrdinaryEc2
            /\ ciStatus = OrdinaryStatus
            /\ tasks = RunningTasks
    /\ lifecycle = [heartbeats |-> 0, completed |-> FALSE]
    /\ smState = "Function"
    /\ pc = "idle"
    /\ evt = NoEvent
    /\ evtDetail = ZeroDetail
    /\ clusterName = <<>>
    /\ arrayOfArns = <<>>
    /\ containerInstance = NoContainerInstance
    /\ exists = FALSE
    /\ result = NoResult
    /\ input = NoEvent
    /\ calls = <<>>
    /\ nInvocations = 0
    /\ nUpdateCalls = 0
    /\ twin = NoTwin

HandlerStart ==
    /\ pc = "start"
    /\ LET v == Validate(evt)
       IN IF v.res # NoResult
          THEN Finish(v.res)
          ELSE /\ pc' = "getECSClusterName"
               /\ evtDetail' = v.detail
               /\ UNCHANGED <<evt, clusterName, arrayOfArns, containerInstance,
                              exists, result>>
    /\ UNCHANGED <<cloudVars, smVars, input, calls, nInvocations, nUpdateCalls, twin>>

\* getECSClusterName (with getUserData): one DescribeInstanceAttribute call.
GetECSClusterName ==
    /\ pc = "getECSClusterName"
    /\ \E ok \in BOOLEAN :
         LET out == DescribeInstanceAttributeOutput(evtDetail.EC2InstanceId)
             r == GetECSClusterNameResult(out)
         IN /\ calls' = Append(calls, Call("DescribeInstanceAttribute", ok,
                                           <<evtDetail.EC2InstanceId>>,
                                           IF ok THEN <<out>> ELSE <<>>))
            /\ IF ~ok THEN Finish(ErrorResult("DescribeInstanceAttribute"))
               ELSE IF r.err # "" THEN Finish(ErrorResult(r.err))
               ELSE /\ pc' = "listContainerInstances"
                    /\ clusterName' = r.name
                    /\ UNCHANGED <<evt, evtDetail, arrayOfArns, containerInstance,
                                   exists, result>>
    /\ UNCHANGED <<cloudVars, smVars, input, nInvocations, nUpdateCalls, twin>>

\* getContainerInstance, lines 157-167: the paginated list call.
ListContainerInstances ==
    /\ pc = "listContainerInstances"
    /\ \E ok \in BOOLEAN :
         LET out == ListContainerInstancesOutput(clusterName)
         IN /\ calls' = Append(calls, Call("ListContainerInstances", ok,
                                           <<clusterName>>, IF ok THEN out ELSE <<>>))
            /\ IF ~ok THEN Finish(ErrorResult("ListContainerInstances"))
               ELSE /\ pc' = "describeContainerInstances"
                    /\ arrayOfArns' = CollectPages(out)
                    /\ UNCHANGED <<evt, evtDetail, clusterName, containerInstance,
                                   exists, result>>
    /\ UNCHANGED <<cloudVars, smVars, input, nInvocations, nUpdateCalls, twin>>

\* A variant of FindContainerInstance that takes the first described
\* instance without comparing the EC2 instance id.
FindContainerInstance_First(output, instanceID) ==
    IF Len(output) > 0 THEN 1 ELSE 0

\* Line 177-181: the first described instance with the EC2 instance id, as an
\* index into the output, 0 if there is none.
FindContainerInstance(output, instanceID) ==
    LET hits == {i \in 1..Len(output) : output[i].ec2 = instanceID}
    IN IF hits = {} THEN 0 ELSE Min(hits)

\* getContainerInstance, lines 169-184: one round of the loop over the pages
\* (arrayOfArns holds the pages not yet described), or the return after it.
DescribeContainerInstances ==
    /\ pc = "describeContainerInstances"
    /\ IF arrayOfArns = <<>>
       THEN /\ Finish(ErrorResult("container instance not found"))
            /\ UNCHANGED calls
       ELSE \E ok \in BOOLEAN :
              LET arns == Head(arrayOfArns)
                  out == DescribeContainerInstancesOutput(clusterName, arns)
                  hit == FindContainerInstance(out, evtDetail.EC2InstanceId)
              IN /\ calls' = Append(calls, Call("DescribeContainerInstances", ok,
                                                <<clusterName, arns>>,
                                                IF ok THEN out ELSE <<>>))
                 /\ IF ~ok THEN Finish(ErrorResult("DescribeContainerInstances"))
                    ELSE IF hit # 0
                    THEN /\ pc' = "drain"
                         /\ containerInstance' = out[hit]
                         /\ arrayOfArns' = <<>>
                         /\ UNCHANGED <<evt, evtDetail, clusterName, exists, result>>
                    ELSE /\ arrayOfArns' = Tail(arrayOfArns)
                         /\ UNCHANGED <<pc, evt, evtDetail, clusterName,
                                        containerInstance, exists, result>>
    /\ UNCHANGED <<cloudVars, smVars, input, nInvocations, nUpdateCalls, twin>>

\* Variants of NeedsDraining: the update is made whatever the status, or
\* never, or only for an ACTIVE instance.
NeedsDraining_Always(ci) == TRUE
NeedsDraining_Never(ci) == FALSE
NeedsDraining_OnlyActive(ci) == ci.status = ContainerInstanceStatusActive

\* Line 75: the guard of the drain step.
NeedsDraining(ci) == ci.status # ContainerInstanceStatusDraining

\* A variant of SetStateDrainingInput that names every container instance.
SetStateDrainingInput_AllInstances(cluster, arn) ==
    <<cluster, SortedSeq(ContainerInstances), ContainerInstanceStatusDraining>>

\* Lines 189-193: the request of setStateDraining, <<Cluster,
\* ContainerInstances, Status>>.
SetStateDrainingInput(cluster, arn) ==
    <<cluster, <<arn>>, ContainerInstanceStatusDraining>>

\* ecs:UpdateContainerInstancesState: the statuses after a successful call.
UpdatedStatuses(arns, status) ==
    [c \in ContainerInstances |->
        IF \E i \in 1..Len(arns) : arns[i] = c THEN status ELSE ciStatus[c]]

\* A variant of Drain that drops the error of setStateDraining.
Drain_IgnoringError ==
    /\ pc = "drain"
    /\ IF NeedsDraining(containerInstance)
       THEN \E ok \in BOOLEAN :
              LET req == SetStateDrainingInput(clusterName, containerInstance.arn)
              IN /\ calls' = Append(calls, Call("UpdateContainerInstancesState", ok,
                                                req, <<>>))
                 /\ nUpdateCalls' = nUpdateCalls + 1
                 /\ ciStatus' = IF ok THEN UpdatedStatuses(req[2], req[3]) ELSE ciStatus
                 /\ pc' = "listRunning"
                 /\ UNCHANGED <<localVars, result>>
       ELSE /\ pc' = "listRunning"
            /\ UNCHANGED <<ciStatus, localVars, result, calls, nUpdateCalls>>
    /\ UNCHANGED <<userData, ciEc2, tasks, lifecycle, smVars, input, nInvocations, twin>>

\* Lines 75-79 with setStateDraining.
Drain ==
    /\ pc = "drain"
    /\ IF NeedsDraining(containerInstance)
       THEN \E ok \in BOOLEAN :
              LET req == SetStateDrainingInput(clusterName, containerInstance.arn)
              IN /\ calls' = Append(calls, Call("UpdateContainerInstancesState", ok,
                                                req, <<>>))
                 /\ nUpdateCalls' = nUpdateCalls + 1
                 /\ IF ok
                    THEN /\ ciStatus' = UpdatedStatuses(req[2], req[3])
                         /\ pc' = "listRunning"
                         /\ UNCHANGED <<localVars, result>>
                    ELSE /\ Finish(ErrorResult("UpdateContainerInstancesState"))
                         /\ UNCHANGED ciStatus
       ELSE /\ pc' = "listRunning"
            /\ UNCHANGED <<ciStatus, localVars, result, calls, nUpdateCalls>>
    /\ UNCHANGED <<userData, ciEc2, tasks, lifecycle, smVars, input, nInvocations, twin>>

\* taskExists, lines 198-208: the first page of the tasks whose desired
\* status is RUNNING.
ListRunningTasks ==
    /\ pc = "listRunning"
    /\ \E ok \in BOOLEAN :
         LET out == Head(Pages(ListedTasks(clusterName, containerInstance.arn, "RUNNING")))
         IN /\ calls' = Append(calls, Call("ListTasks", ok,
                                           <<clusterName, containerInstance.arn, "RUNNING">>,
                                           IF ok THEN out ELSE <<>>))
            /\ IF ~ok THEN Finish(ErrorResult("ListTasks"))
               ELSE IF Len(out) > 0
               THEN /\ pc' = "lifecycle"
                    /\ exists' = TRUE
                    /\ UNCHANGED <<evt, evtDetail, clusterName, arrayOfArns,
                                   containerInstance, result>>
               ELSE /\ pc' = "listStopped"
                    /\ UNCHANGED <<localVars, result>>
    /\ UNCHANGED <<cloudVars, smVars, input, nInvocations, nUpdateCalls, twin>>

\* taskExists, lines 210-224: all pages of the tasks whose desired status is
\* STOPPED.
ListStoppedTasks ==
    /\ pc = "listStopped"
    /\ \E ok \in BOOLEAN :
         LET out == Pages(ListedTasks(clusterName, containerInstance.arn, "STOPPED"))
         IN /\ calls' = Append(calls, Call("ListTasksPages", ok,
                                           <<clusterName, containerInstance.arn, "STOPPED">>,
                                           IF ok THEN out ELSE <<>>))
            /\ IF ~ok THEN Finish(ErrorResult("ListTasksPages"))
               ELSE /\ pc' = "describeTasks"
                    /\ arrayOfArns' = CollectPages(out)
                    /\ UNCHANGED <<evt, evtDetail, clusterName, containerInstance,
                                   exists, result>>
    /\ UNCHANGED <<cloudVars, smVars, input, nInvocations, nUpdateCalls, twin>>

\* A variant of AnyTaskRunning that takes every described task as running.
AnyTaskRunning_Any(output) == Len(output) > 0

\* A variant of AnyTaskRunning that looks for the wrong status.
AnyTaskRunning_Pending(output) ==
    \E i \in 1..Len(output) : output[i].lastStatus = "PENDING"

\* Lines 234-238: some described task has last status RUNNING.
AnyTaskRunning(output) == \E i \in 1..Len(output) : output[i].lastStatus = "RUNNING"

\* taskExists, lines 226-241: one round of the loop over the pages, or the
\* return after it.
DescribeTasks ==
    /\ pc = "describeTasks"
    /\ IF arrayOfArns = <<>>
       THEN /\ pc' = "lifecycle"
            /\ exists' = FALSE
            /\ UNCHANGED <<evt, evtDetail, clusterName, arrayOfArns, containerInstance,
                           result, calls>>
       ELSE \E ok \in BOOLEAN :
              LET arns == Head(arrayOfArns)
                  out == DescribeTasksOutput(clusterName, arns)
              IN /\ calls' = Append(calls, Call("DescribeTasks", ok, <<clusterName, arns>>,
                                                IF ok THEN out ELSE <<>>))
                 /\ IF ~ok THEN Finish(ErrorResult("DescribeTasks"))
                    ELSE IF AnyTaskRunning(out)
                    THEN /\ pc' = "lifecycle"
                         /\ exists' = TRUE
                         /\ arrayOfArns' = <<>>
                         /\ UNCHANGED <<evt, evtDetail, clusterName, containerInstance,
                                        result>>
                    ELSE /\ arrayOfArns' = Tail(arrayOfArns)
                         /\ UNCHANGED <<pc, evt, evtDetail, clusterName,
                                        containerInstance, exists, result>>
    /\ UNCHANGED <<cloudVars, smVars, input, nInvocations, nUpdateCalls, twin>>

\* A variant of CompleteInput that abandons the lifecycle action.
CompleteInput_Abandon(detail) ==
    [AutoScalingGroupName |-> detail.AutoScalingGroupName,
     LifecycleActionResult |-> "ABANDON",
     LifecycleActionToken |-> detail.LifecycleActionToken,
     LifecycleHookName |-> detail.LifecycleHookName]

\* heartbeat's and complete's requests.
HeartbeatInput(detail) ==
    [AutoScalingGroupName |-> detail.AutoScalingGroupName,
     LifecycleActionToken |-> detail.LifecycleActionToken,
     LifecycleHookName |-> detail.LifecycleHookName]

CompleteInput(detail) ==
    [AutoScalingGroupName |-> detail.AutoScalingGroupName,
     LifecycleActionResult |-> "CONTINUE",
     LifecycleActionToken |-> detail.LifecycleActionToken,
     LifecycleHookName |-> detail.LifecycleHookName]

\* A variant of LifecycleApi that never completes the lifecycle action.
LifecycleApi_AlwaysHeartbeat(taskExists) == "RecordLifecycleActionHeartbeat"

\* Lines 86-96: which lifecycle call is made, and the Wait flag it leads to.
LifecycleApi(taskExists) ==
    IF taskExists THEN "RecordLifecycleActionHeartbeat" ELSE "CompleteLifecycleAction"

\* A variant of WaitFlag that always asks for another poll.
WaitFlag_AlwaysTrue(taskExists) == TRUE

\* Lines 90 and 95: the Wait flag of the returned event.
WaitFlag(taskExists) == taskExists

\* A variant of ReturnedEvent that keeps a Wait = true of the input.
ReturnedEvent_KeepWait(e, detail, wait) ==
    [e EXCEPT !.Detail = Marshal([detail EXCEPT !.Wait = detail.Wait \/ wait])]

\* Lines 98-101: the event that handler returns.
ReturnedEvent(e, detail, wait) ==
    [e EXCEPT !.Detail = Marshal([detail EXCEPT !.Wait = wait])]

\* Lines 86-101: the lifecycle call and the return.
Lifecycle ==
    /\ pc = "lifecycle"
    /\ \E ok \in BOOLEAN :
         LET api == LifecycleApi(exists)
             req == IF api = "RecordLifecycleActionHeartbeat"
                    THEN <<HeartbeatInput(evtDetail)>>
                    ELSE <<CompleteInput(evtDetail)>>
         IN /\ calls' = Append(calls, Call(api, ok, req, <<>>))
            /\ IF ~ok
               THEN /\ Finish(ErrorResult(api))
                    /\ UNCHANGED lifecycle
               ELSE /\ lifecycle' =
                         IF api = "RecordLifecycleActionHeartbeat"
                         THEN [lifecycle EXCEPT
                                  !.heartbeats = IF @ < MaxInvocations THEN @ + 1 ELSE @]
                         ELSE [lifecycle EXCEPT !.completed = TRUE]
                    /\ Finish(EventResult(ReturnedEvent(evt, evtDetail, WaitFlag(exists))))
    /\ UNCHANGED <<userData, ciEc2, ciStatus, tasks, smVars, input, nInvocations,
                   nUpdateCalls, twin>>

(***************************************************************************)
(* The state machine ECSAutoDraining.                                      *)
(***************************************************************************)
Running == smState \in {"Function", "Wait?", "Wait"}

\* State "Function", a Task: the function is invoked with the state's input.
FunctionTask ==
    /\ smState = "Function"
    /\ pc = "idle"
    /\ nInvocations < MaxInvocations
    /\ pc' = "start"
    /\ evt' = smData
    /\ input' = smData
    /\ calls' = <<>>
    /\ result' = NoResult
    /\ nInvocations' = nInvocations + 1
    /\ UNCHANGED <<cloudVars, smVars, evtDetail, clusterName, arrayOfArns,
                   containerInstance, exists, nUpdateCalls, twin>>

\* State "Function": the function's result is the state's output and "Wait?"
\* is next; an error of the function fails the execution (the state has
\* neither Retry nor Catch).
FunctionTaskEnd ==
    /\ smState = "Function"
    /\ pc = "done"
    /\ pc' = "idle"
    /\ IF result.kind = "event"
       THEN /\ smState' = "Wait?"
            /\ smData' = result.evt
       ELSE /\ smState' = "TaskFailed"
            /\ UNCHANGED smData
    /\ UNCHANGED <<cloudVars, localVars, result, input, calls, nInvocations,
                   nUpdateCalls, twin>>

\* A variant of WaitChoice whose Default is "Succeeded".
WaitChoice_DefaultSucceeded(data) ==
    LET present == data.Detail.kind = "object" /\ "Wait" \in DOMAIN data.Detail.obj
    IN IF present /\ data.Detail.obj["Wait"] = JBool(TRUE) THEN "Wait"
       ELSE "Succeeded"

\* State "Wait?", a Choice on $.detail.Wait: the next state for a document.
WaitChoice(data) ==
    LET present == data.Detail.kind = "object" /\ "Wait" \in DOMAIN data.Detail.obj
    IN IF present /\ data.Detail.obj["Wait"] = JBool(TRUE) THEN "Wait"
       ELSE IF present /\ data.Detail.obj["Wait"] = JBool(FALSE) THEN "Succeeded"
       ELSE "Failed"

WaitChoiceState ==
    /\ smState = "Wait?"
    /\ smState' = WaitChoice(smData)
    /\ UNCHANGED <<cloudVars, smData, pc, localVars, result, input, calls,
                   nInvocations, nUpdateCalls, twin>>

\* State "Wait": 30 seconds later "Function" is next, with the same document.
WaitState ==
    /\ smState = "Wait"
    /\ smState' = "Function"
    /\ UNCHANGED <<cloudVars, smData, pc, localVars, result, input, calls,
                   nInvocations, nUpdateCalls, twin>>

\* TimeoutSeconds: the execution is ended wherever it stands. An invocation
\* under way is not cancelled with it and reads nothing of the execution, so
\* the timeout is taken before the invocation starts or when it has returned.
Timeout ==
    /\ Running
    /\ pc \in {"idle", "done"}
    /\ smState' = "TimedOut"
    /\ UNCHANGED <<cloudVars, smData, pc, localVars, result, input, calls,
                   nInvocations, nUpdateCalls, twin>>

(***************************************************************************)
(* The tasks, which stop on their own while the execution goes on.         *)
(***************************************************************************)
\* A task changes at any time, and the change shows only in the task calls
\* of taskExists for its container instance; it commutes with every other
\* step, so it is taken while the invocation stands at one of these calls.
Observed(t) ==
    /\ pc \in {"listRunning", "listStopped", "describeTasks"}
    /\ tasks[t].ci = containerInstance.arn

\* ECS (or its user) decides to stop a task.
StopTask(t) ==
    /\ Observed(t)
    /\ tasks[t].present /\ tasks[t].desired = "RUNNING"
    /\ tasks' = [tasks EXCEPT ![t].desired = "STOPPED"]
    /\ UNCHANGED <<userData, ciEc2, ciStatus, lifecycle, smVars, pc, localVars, result,
                   input, calls, nInvocations, nUpdateCalls, twin>>

\* The containers of a task that is being stopped have exited.
TaskStopped(t) ==
    /\ Observed(t)
    /\ tasks[t].present /\ tasks[t].desired = "STOPPED" /\ tasks[t].last = "RUNNING"
    /\ tasks' = [tasks EXCEPT ![t].last = "STOPPED"]
    /\ UNCHANGED <<userData, ciEc2, ciStatus, lifecycle, smVars, pc, localVars, result,
                   input, calls, nInvocations, nUpdateCalls, twin>>

\* ECS forgets a stopped task.
TaskForgotten(t) ==
    /\ Observed(t)
    /\ tasks[t].present /\ tasks[t].desired = "STOPPED" /\ tasks[t].last = "STOPPED"
    /\ tasks' = [tasks EXCEPT ![t] = GoneTask]
    /\ UNCHANGED <<userData, ciEc2, ciStatus, lifecycle, smVars, pc, localVars, result,
                   input, calls, nInvocations, nUpdateCalls, twin>>

TaskStep == \E t \in Tasks : StopTask(t) \/ TaskStopped(t) \/ TaskForgotten(t)

Next ==
    \/ FunctionTask
    \/ HandlerStart
    \/ GetECSClusterName
    \/ ListContainerInstances
    \/ DescribeContainerInstances
    \/ Drain
    \/ ListRunningTasks
    \/ ListStoppedTasks
    \/ DescribeTasks
    \/ Lifecycle
    \/ FunctionTaskEnd
    \/ WaitChoiceState
    \/ WaitState
    \/ Timeout
    \/ TaskStep

Spec == Init /\ [][Next]_vars

(***************************************************************************)
(* The state machine by itself: to the definition of ECSAutoDraining the   *)
(* resource of state "Function" is any Lambda function, which fails or     *)
(* returns any JSON document.                                              *)
(***************************************************************************)
FunctionResults ==
    {ErrorResult("error")} \cup {EventResult(e) : e \in Events}

AnyFunction ==
    /\ pc = "start"
    /\ pc' = "done"
    /\ result' \in FunctionResults
    /\ UNCHANGED <<cloudVars, smVars, localVars, input, calls, nInvocations, nUpdateCalls, twin>>

InitSM ==
    /\ userData = ClusterUserData
    /\ ciEc2 = OrdinaryEc2
    /\ ciStatus = OrdinaryStatus
    /\ tasks = RunningTasks
    /\ Init

NextSM ==
    \/ FunctionTask
    \/ AnyFunction
    \/ FunctionTaskEnd
    \/ WaitChoiceState
    \/ WaitState
    \/ Timeout

SpecSM == InitSM /\ [][NextSM]_vars

(***************************************************************************)
(* The execution for as long as it takes, with fairness: the function and  *)
(* the state machine keep going, and a task that is offered a step towards *)
(* STOPPED again and again takes it (ECS stops the tasks of a DRAINING     *)
(* instance). The timeout and the forgetting of stopped tasks may or may   *)
(* not happen.                                                             *)
(***************************************************************************)
\* State "Function" when MaxInvocations invocations have been counted: the
\* function is invoked all the same, and the count stays.
FunctionTaskAgain ==
    /\ smState = "Function"
    /\ pc = "idle"
    /\ nInvocations = MaxInvocations
    /\ pc' = "start"
    /\ evt' = smData
    /\ input' = smData
    /\ calls' = <<>>
    /\ result' = NoResult
    /\ UNCHANGED <<cloudVars, smVars, evtDetail, clusterName, arrayOfArns,
                   containerInstance, exists, nInvocations, nUpdateCalls, twin>>

\* The steps of the function and of the state machine.
Progress ==
    \/ FunctionTask
    \/ FunctionTaskAgain
    \/ HandlerStart
    \/ GetECSClusterName
    \/ ListContainerInstances
    \/ DescribeContainerInstances
    \/ Drain
    \/ ListRunningTasks
    \/ ListStoppedTasks
    \/ DescribeTasks
    \/ Lifecycle
    \/ FunctionTaskEnd
    \/ WaitChoiceState
    \/ WaitState

NextLive ==
    \/ Progress
    \/ Timeout
    \/ TaskStep

\* A lifecycle event as AutoScaling sends it, for an instance that is
\* registered as the container instances of the cluster, all in one status.
InitLive ==
    /\ userData = ClusterUserData
    /\ smData \in {e \in Events : OrdinaryEvent(e) /\ "Wait" \notin DOMAIN e.Detail.obj}
    /\ ciEc2 = OrdinaryEc2
    /\ \E st \in ContainerInstanceStatuses : ciStatus = [c \in ContainerInstances |-> st]
    /\ Init

Fairness ==
    /\ WF_vars(Progress)
    /\ \A t \in Tasks : SF_vars(StopTask(t)) /\ SF_vars(TaskStopped(t))

SpecLive == InitLive /\ [][NextLive]_vars /\ Fairness

(***************************************************************************)
(* Two invocations of the function, outside the state machine, with two    *)
(* events that differ at most in detail.Wait, both started from the same   *)
(* cloud state: the first runs to its return and is set aside in twin,     *)
(* the cloud is put back as it was, and the second runs.                   *)
(***************************************************************************)
\* An event without the Wait key of its detail.
WithoutWait(e) ==
    IF e.Detail.kind = "object"
    THEN [e EXCEPT !.Detail.obj = [k \in DOMAIN e.Detail.obj \ {"Wait"} |-> e.Detail.obj[k]]]
    ELSE e

\* lambda.Start(handler): the first invocation, with the event of Init.
TwinFirst ==
    /\ twin.phase = 0
    /\ pc = "idle"
    /\ pc' = "start"
    /\ evt' = smData
    /\ input' = smData
    /\ calls' = <<>>
    /\ result' = NoResult
    /\ twin' = [twin EXCEPT !.phase = 1, !.ciStatus = ciStatus, !.lifecycle = lifecycle]
    /\ UNCHANGED <<cloudVars, smVars, evtDetail, clusterName, arrayOfArns,
                   containerInstance, exists, nInvocations, nUpdateCalls>>

\* The second invocation, with another event that differs from the first
\* in detail.Wait alone.
TwinSecond ==
    /\ twin.phase = 1
    /\ pc = "done"
    /\ \E e \in Events :
         /\ e # input
         /\ WithoutWait(e) = WithoutWait(input)
         /\ evt' = e
         /\ input' = e
    /\ twin' = [twin EXCEPT !.phase = 2, !.input = input, !.calls = calls,
                            !.result = result]
    /\ ciStatus' = twin.ciStatus
    /\ lifecycle' = twin.lifecycle
    /\ pc' = "start"
    /\ calls' = <<>>
    /\ result' = NoResult
    /\ UNCHANGED <<userData, ciEc2, tasks, smVars, evtDetail, clusterName, arrayOfArns,
                   containerInstance, exists, nInvocations, nUpdateCalls>>

NextTwin ==
    \/ TwinFirst
    \/ HandlerStart
    \/ GetECSClusterName
    \/ ListContainerInstances
    \/ DescribeContainerInstances
    \/ Drain
    \/ ListRunningTasks
    \/ ListStoppedTasks
    \/ DescribeTasks
    \/ Lifecycle
    \/ TwinSecond

\* The cloud of the two invocations: the container instances are all
\* registered for one EC2 instance and all in one status, and the tasks are
\* all in one state on one container instance.
InitTwin ==
    /\ \E id \in EC2Ids : ciEc2 = [c \in ContainerInstances |-> id]
    /\ \E st \in ContainerInstanceStatuses : ciStatus = [c \in ContainerInstances |-> st]
    /\ \E ts \in InitialTaskStates : tasks = [t \in Tasks |-> ts]
    /\ Init

SpecTwin == InitTwin /\ [][NextTwin]_vars

(***************************************************************************)
(* The execution over lifecycle actions of several hooks and container     *)
(* instances in any status.                                                *)
(***************************************************************************)
\* The names and the token of a lifecycle action as AutoScaling sends them;
\* a key may be missing from an event put together by hand.
ActionOptions ==
    {("AutoScalingGroupName" :> JStr("asg")) @@ ("LifecycleActionToken" :> JStr("token")),
     ("AutoScalingGroupName" :> JStr("asg-2")) @@ ("LifecycleActionToken" :> JStr("token-2"))}
HookOptions == {EmptyObj, "LifecycleHookName" :> JStr("hook")}

LifecycleEvents ==
    {Event(DetailTypeTerminateLifecycle,
           RawObject(("EC2InstanceId" :> JStr(TheInstanceId))
                     @@ ("LifecycleTransition" :> JStr(LifecycleTransitionTerminating))
                     @@ a @@ h)) :
        a \in ActionOptions, h \in HookOptions}

\* One task runs, on the first container instance.
OneRunningTask ==
    [t \in Tasks |-> IF t = 1 THEN RunningTasks[t] ELSE GoneTask]

InitInputs ==
    /\ userData = ClusterUserData
    /\ smData \in LifecycleEvents
    /\ ciEc2 \in [ContainerInstances -> EC2Ids]
    /\ ciStatus \in [ContainerInstances -> AllContainerInstanceStatuses]
    /\ tasks = OneRunningTask
    /\ lifecycle = [heartbeats |-> 0, completed |-> FALSE]
    /\ smState = "Function"
    /\ pc = "idle"
    /\ evt = NoEvent
    /\ evtDetail = ZeroDetail
    /\ clusterName = <<>>
    /\ arrayOfArns = <<>>
    /\ containerInstance = NoContainerInstance
    /\ exists = FALSE
    /\ result = NoResult
    /\ input = NoEvent
    /\ calls = <<>>
    /\ nInvocations = 0
    /\ nUpdateCalls = 0
    /\ twin = NoTwin

SpecInputs == InitInputs /\ [][Next]_vars

(***************************************************************************)
(* Reading the history of an invocation.                                   *)
(***************************************************************************)
CallsOf(api) == {i \in 1..Len(calls) : calls[i].api = api}
Made(api) == CallsOf(api) # {}
Returned == pc = "done"
ReturnedAnEvent == pc = "done" /\ result.kind = "event"

\* The value of a key of a detail payload, JNull if there is none.
DetailValue(raw, k) ==
    IF raw.kind = "object" /\ k \in DOMAIN raw.obj THEN raw.obj[k] ELSE JNull

\* The task check of the current invocation has seen a RUNNING task: the
\* desired-RUNNING list was not empty, or a described task of the
\* desired-STOPPED list had last status RUNNING.
ReportsRunning ==
    \/ \E i \in CallsOf("ListTasks") : calls[i].ok /\ Len(calls[i].out) > 0
    \/ \E i \in CallsOf("DescribeTasks") :
          calls[i].ok /\ \E j \in 1..Len(calls[i].out) : calls[i].out[j].lastStatus = "RUNNING"

\* The task check of the current invocation is through and has seen no
\* RUNNING task: both lists were read, every page of the desired-STOPPED list
\* was described, and nothing was RUNNING.
ReportsNoneRunning ==
    /\ \E i \in CallsOf("ListTasks") : calls[i].ok /\ Len(calls[i].out) = 0
    /\ \E i \in CallsOf("ListTasksPages") :
          /\ calls[i].ok
          /\ Cardinality(CallsOf("DescribeTasks")) = Len(CollectPages(calls[i].out))
    /\ \A i \in CallsOf("DescribeTasks") :
          calls[i].ok /\ \A j \in 1..Len(calls[i].out) : calls[i].out[j].lastStatus # "RUNNING"

(***************************************************************************)
(* C1. Every event whose detail-type is not "EC2 Instance-terminate        *)
(* Lifecycle Action", or whose detail has no LifecycleTransition           *)
(* "autoscaling:EC2_INSTANCE_TERMINATING", makes handler return an error   *)
(* without any SDK call.                                                   *)
(***************************************************************************)
MismatchedEvent(e) ==
    \/ e.DetailType # DetailTypeTerminateLifecycle
    \/ DetailValue(e.Detail, "LifecycleTransition") # JStr(LifecycleTransitionTerminating)

C1_MismatchIsValidationError ==
    (Returned /\ MismatchedEvent(input)) => (result.kind = "error" /\ calls = <<>>)

(***************************************************************************)
(* C2. When the task check of an invocation has seen a RUNNING task, the   *)
(* invocation makes a heartbeat call and no complete call, and the event   *)
(* it returns has Wait = true (it returns one when the heartbeat call      *)
(* succeeds).                                                              *)
(***************************************************************************)
C2_RunningMeansHeartbeat ==
    (Returned /\ ReportsRunning) =>
        /\ Made("RecordLifecycleActionHeartbeat")
        /\ ~Made("CompleteLifecycleAction")
        /\ calls[Len(calls)].ok => result.kind = "event"
        /\ result.kind = "event" => DetailValue(result.evt.Detail, "Wait") = JBool(TRUE)

\* An invocation that found the RUNNING task on the second page of the
\* desired-STOPPED list and returned Wait = true.
C2_Witness ==
    /\ ReturnedAnEvent
    /\ Cardinality(CallsOf("DescribeTasks")) = 2
    /\ ReportsRunning
    /\ DetailValue(result.evt.Detail, "Wait") = JBool(TRUE)

(***************************************************************************)
(* C3. When the task check of an invocation has seen no RUNNING task, the  *)
(* invocation makes a complete call and no heartbeat call, and the event   *)
(* it returns has Wait = false (it returns one when the complete call      *)
(* succeeds).                                                              *)
(***************************************************************************)
C3_NoneRunningMeansComplete ==
    (Returned /\ ReportsNoneRunning) =>
        /\ Made("CompleteLifecycleAction")
        /\ ~Made("RecordLifecycleActionHeartbeat")
        /\ calls[Len(calls)].ok => result.kind = "event"
        /\ result.kind = "event" => DetailValue(result.evt.Detail, "Wait") = JBool(FALSE)

\* An invocation that described two pages of stopped tasks, none RUNNING, and
\* returned Wait = false.
C3_Witness ==
    /\ ReturnedAnEvent
    /\ Cardinality(CallsOf("DescribeTasks")) = 2
    /\ ReportsNoneRunning
    /\ DetailValue(result.evt.Detail, "Wait") = JBool(FALSE)

(***************************************************************************)
(* C4. An invocation that finds the container instance DRAINING makes no   *)
(* UpdateContainerInstancesState call, and the invocations of one          *)
(* execution make at most one such call in total.                          *)
(***************************************************************************)
EventInstanceId == DetailValue(input.Detail, "EC2InstanceId")[2]

\* The first container instance with the EC2 instance id of the event in
\* the output of a DescribeContainerInstances call had status `status`.
MatchDescribedAs(i, status) ==
    /\ calls[i].api = "DescribeContainerInstances"
    /\ calls[i].ok
    /\ \E j \in 1..Len(calls[i].out) :
          /\ calls[i].out[j].ec2 = EventInstanceId
          /\ \A k \in 1..(j - 1) : calls[i].out[k].ec2 # EventInstanceId
          /\ calls[i].out[j].status = status

ObservedDraining ==
    \E i \in 1..Len(calls) : MatchDescribedAs(i, ContainerInstanceStatusDraining)

C4_DrainingIsIdempotent ==
    /\ ObservedDraining => ~Made("UpdateContainerInstancesState")
    /\ nUpdateCalls <= 1

\* A second invocation, on the instance that the first one set to DRAINING,
\* that has returned without an update call.
C4_Witness ==
    /\ nInvocations = 2
    /\ nUpdateCalls = 1
    /\ ReturnedAnEvent
    /\ ObservedDraining
    /\ ~Made("UpdateContainerInstancesState")

(***************************************************************************)
(* C5, as stated. The event that handler returns has the envelope fields   *)
(* of its input and every key of the input's detail but Wait, with the     *)
(* same values, and a boolean Wait.                                        *)
(***************************************************************************)
EnvelopePreserved ==
    \A f \in EnvelopeFields : result.evt[f] = input[f]

WaitIsBoolean ==
    DetailValue(result.evt.Detail, "Wait") \in {JBool(TRUE), JBool(FALSE)}

C5_AllDetailKeysPreserved ==
    ReturnedAnEvent =>
        /\ EnvelopePreserved
        /\ WaitIsBoolean
        /\ \A k \in DOMAIN input.Detail.obj \ {"Wait"} :
              DetailValue(result.evt.Detail, k) = input.Detail.obj[k]

(***************************************************************************)
(* C5, amended. The event that handler returns has the envelope fields of  *)
(* its input; its detail has exactly the six fields that                   *)
(* CloudWatchEventDetail declares, the five string fields with the values  *)
(* of the input, and a boolean Wait. Keys of the input's detail that the   *)
(* struct does not declare are not carried over.                           *)
(***************************************************************************)
C5_DeclaredFieldsPreserved ==
    ReturnedAnEvent =>
        /\ EnvelopePreserved
        /\ WaitIsBoolean
        /\ result.evt.Detail.kind = "object"
        /\ DOMAIN result.evt.Detail.obj = StructFields
        /\ \A k \in StringFields :
              result.evt.Detail.obj[k] =
                  IF DetailValue(input.Detail, k) = JNull THEN JStr("")
                  ELSE input.Detail.obj[k]

\* A returned event whose input carried notification metadata.
C5_Witness ==
    /\ ReturnedAnEvent
    /\ DetailValue(input.Detail, "NotificationMetadata") # JNull
    /\ DetailValue(result.evt.Detail, "NotificationMetadata") = JNull

(***************************************************************************)
(* C6. A failed SDK call is the last call of its invocation: handler       *)
(* returns the error of that call and no event, and no invocation makes    *)
(* the same call twice.                                                    *)
(***************************************************************************)
C6_ErrorsAbort ==
    /\ \A i \in 1..Len(calls) :
          ~calls[i].ok =>
              /\ i = Len(calls)
              /\ pc \in {"done", "idle"}
              /\ result = ErrorResult(calls[i].api)
    /\ \A i, j \in 1..Len(calls) :
          (i < j /\ calls[i].api = calls[j].api) => calls[i].arg # calls[j].arg

\* An invocation that failed in its last DescribeTasks call, after the
\* instance was located and the task lists were read.
C6_Witness ==
    /\ Returned
    /\ Len(calls) >= 6
    /\ calls[Len(calls)].api = "DescribeTasks"
    /\ ~calls[Len(calls)].ok
    /\ result.kind = "error"

(***************************************************************************)
(* C7. When the user data is absent, or holds no ECS_CLUSTER=<name>,       *)
(* handler returns a not-found error and DescribeInstanceAttribute is its  *)
(* only call: no ECS call and no AutoScaling call is made.                 *)
(***************************************************************************)
\* Somewhere in the text, ECS_CLUSTER= starts at a word boundary and is
\* followed by a character of a name.
HasClusterAssignment(text) ==
    \E i \in 1..(Len(text) - 1) :
        /\ text[i] = KeyToken
        /\ (i = 1 \/ text[i - 1] \in {KeyToken, "-", " "})
        /\ text[i + 1] # " "

UserDataWithoutCluster(attr) ==
    \/ ~attr.hasValue
    \/ attr.base64 /\ ~HasClusterAssignment(attr.text)

C7_NoClusterNoEcsCall ==
    (/\ Returned
     /\ Made("DescribeInstanceAttribute")
     /\ calls[1].ok
     /\ UserDataWithoutCluster(calls[1].out[1]))
    => /\ result.kind = "error"
       /\ result.err \in {"NoUserData", "NoClusterInUserData"}
       /\ Len(calls) = 1

\* A user data text that has the key, but not as a match.
C7_Witness ==
    /\ Returned
    /\ result.err = "NoClusterInUserData"
    /\ Len(calls) = 1
    /\ \E i \in 1..Len(calls[1].out[1].text) : calls[1].out[1].text[i] = KeyToken

(***************************************************************************)
(* C8. getContainerInstance returns a listed container instance whose EC2  *)
(* instance id is that of the event; when all its calls succeed it fails   *)
(* with not-found exactly when no listed container instance has that id;   *)
(* and after not-found handler makes no further call.                      *)
(***************************************************************************)
ListedContainerInstances ==
    {c \in ContainerInstances :
        \E i \in CallsOf("ListContainerInstances") :
            \E p \in 1..Len(calls[i].out) :
                \E q \in 1..Len(calls[i].out[p]) : calls[i].out[p][q] = c}

MatchListed == \E c \in ListedContainerInstances : ciEc2[c] = EventInstanceId

LocatingApis ==
    {"DescribeInstanceAttribute", "ListContainerInstances", "DescribeContainerInstances"}

C8_ContainerInstanceLocated ==
    /\ pc \in {"drain", "listRunning", "listStopped", "describeTasks", "lifecycle"} =>
          /\ containerInstance.arn \in ListedContainerInstances
          /\ containerInstance.ec2 = EventInstanceId
          /\ ciEc2[containerInstance.arn] = EventInstanceId
    /\ (Returned /\ result.err = "container instance not found") =>
          /\ ~MatchListed
          /\ \A i \in 1..Len(calls) : calls[i].api \in LocatingApis
    /\ (/\ Returned
        /\ Made("ListContainerInstances")
        /\ \A i \in 1..Len(calls) : calls[i].ok
        /\ ~MatchListed)
       => result = ErrorResult("container instance not found")

\* The instance was found on the second page of the list.
C8_Witness ==
    /\ pc = "drain"
    /\ Cardinality(CallsOf("DescribeContainerInstances")) = 2
    /\ containerInstance.ec2 = EventInstanceId

(***************************************************************************)
(* C10. A complete call is made only after the drain step and the task     *)
(* check of the same invocation: the container instance was described as   *)
(* DRAINING, or set to DRAINING by a successful update, before the tasks    *)
(* were listed, it is DRAINING when the call is made, and the task check    *)
(* has seen no RUNNING task.                                               *)
(***************************************************************************)
\* The ARN of the container instance that MatchDescribedAs is about.
MatchArn(i) ==
    LET j == Min({k \in 1..Len(calls[i].out) : calls[i].out[k].ec2 = EventInstanceId})
    IN calls[i].out[j].arn

\* Before call l the instance was described as DRAINING, or as ACTIVE and
\* then updated to DRAINING.
DrainedBefore(l) ==
    \E d \in 1..(l - 1) :
        \/ MatchDescribedAs(d, ContainerInstanceStatusDraining)
        \/ /\ MatchDescribedAs(d, ContainerInstanceStatusActive)
           /\ \E u \in (d + 1)..(l - 1) :
                 /\ calls[u].api = "UpdateContainerInstancesState"
                 /\ calls[u].ok
                 /\ calls[u].arg[2] = <<MatchArn(d)>>
                 /\ calls[u].arg[3] = ContainerInstanceStatusDraining

TaskCheckApis == {"ListTasks", "ListTasksPages", "DescribeTasks"}

C10_CompleteOnlyWhenDrained ==
    \A c \in CallsOf("CompleteLifecycleAction") :
        /\ c = Len(calls)
        /\ ReportsNoneRunning
        /\ \E l \in CallsOf("ListTasks") :
              /\ DrainedBefore(l)
              /\ \A i \in l..(c - 1) : calls[i].api \in TaskCheckApis
        /\ \E d \in 1..(c - 1) :
              /\ \E s \in ContainerInstanceStatuses : MatchDescribedAs(d, s)
              /\ ciStatus[MatchArn(d)] = ContainerInstanceStatusDraining

\* A complete call of an invocation that had to set the instance DRAINING.
C10_Witness ==
    /\ ReturnedAnEvent
    /\ Made("CompleteLifecycleAction")
    /\ Made("UpdateContainerInstancesState")

(***************************************************************************)
(* C9. After state "Function" the state machine goes to "Wait" and then    *)
(* back to "Function", with the document the function returned, when that  *)
(* document has detail.Wait = true; to "Succeeded" when it has             *)
(* detail.Wait = false; to "Failed" when it has no boolean detail.Wait.    *)
(* The function is invoked again only on the way through "Wait", and an    *)
(* execution that has ended invokes nothing.                               *)
(***************************************************************************)
Ended == smState \in {"Succeeded", "Failed", "TaskFailed", "TimedOut"}

NextAfterChoice(data) ==
    CASE DetailValue(data.Detail, "Wait") = JBool(TRUE) -> "Wait"
      [] DetailValue(data.Detail, "Wait") = JBool(FALSE) -> "Succeeded"
      [] OTHER -> "Failed"

PollingStep ==
    /\ (smState = "Wait?" /\ smState' # smState) =>
          /\ smState' \in {NextAfterChoice(smData), "TimedOut"}
          /\ smData' = smData
    /\ (smState = "Wait" /\ smState' # smState) =>
          /\ smState' \in {"Function", "TimedOut"}
          /\ smData' = smData
    /\ nInvocations' # nInvocations =>
          /\ smState = "Function"
          /\ input' = smData
          /\ nInvocations >= 1 =>
                /\ result.kind = "event"
                /\ smData = result.evt
                /\ DetailValue(smData.Detail, "Wait") = JBool(TRUE)
    /\ Ended => (smState' = smState /\ nInvocations' = nInvocations)

C9_PollingLoop == [][PollingStep]_vars

\* An execution that invoked the function a second time, with the document
\* of the first invocation that said Wait = true, and went to "Failed" on a
\* second document without Wait.
C9_Witness ==
    /\ nInvocations = 2
    /\ smState = "Failed"
    /\ DetailValue(input.Detail, "Wait") = JBool(TRUE)
    /\ DetailValue(smData.Detail, "Wait") = JNull

(***************************************************************************)
(* C11. An invocation that finds the container instance in a status other  *)
(* than DRAINING makes exactly one UpdateContainerInstancesState call: it   *)
(* is the call after the DescribeContainerInstances call that found the    *)
(* instance, it names the cluster, that instance's ARN alone and the        *)
(* status DRAINING, and every task call and every lifecycle call of the    *)
(* invocation comes after it.                                              *)
(***************************************************************************)
LifecycleApis == {"RecordLifecycleActionHeartbeat", "CompleteLifecycleAction"}

C11_DrainBeforeTaskCheck ==
    \A d \in CallsOf("DescribeContainerInstances") :
        (/\ \E s \in AllContainerInstanceStatuses \ {ContainerInstanceStatusDraining} :
                MatchDescribedAs(d, s)
         /\ pc # "drain")
        => /\ CallsOf("UpdateContainerInstancesState") = {d + 1}
           /\ calls[d + 1].arg =
                  <<TheCluster, <<MatchArn(d)>>, ContainerInstanceStatusDraining>>
           /\ \A i \in 1..Len(calls) :
                  calls[i].api \in TaskCheckApis \cup LifecycleApis => i > d + 1

\* An invocation that found the instance REGISTERING, set it DRAINING, and
\* went on to the task check and a lifecycle call.
C11_Witness ==
    /\ ReturnedAnEvent
    /\ \E d \in CallsOf("DescribeContainerInstances") : MatchDescribedAs(d, "REGISTERING")
    /\ Made("UpdateContainerInstancesState")
    /\ Made("ListTasks")

(***************************************************************************)
(* C12, as stated. Two invocations whose events differ only in the value   *)
(* or the presence of detail.Wait, started from the same cloud state and   *)
(* given the same outcomes by the calls they make, make the same calls and *)
(* return the same result.                                                 *)
(***************************************************************************)
BothReturned == twin.phase = 2 /\ pc = "done"

SameOutcomes ==
    \A i \in 1..Min({Len(calls), Len(twin.calls)}) : calls[i].ok = twin.calls[i].ok

C12_WaitIsOutputOnly ==
    (BothReturned /\ SameOutcomes) => (calls = twin.calls /\ result = twin.result)

(***************************************************************************)
(* C12, amended. The same holds for two events whose detail.Wait is absent *)
(* or a boolean, and the Wait of the returned event says whether the task  *)
(* check of the invocation has seen a RUNNING task. An event whose         *)
(* detail.Wait is a JSON value of another type is refused with an error    *)
(* before any call.                                                        *)
(***************************************************************************)
WaitWellTyped(e) == DetailValue(e.Detail, "Wait")[1] \in {"null", "bool"}

C12_BooleanWaitIsOutputOnly ==
    /\ (BothReturned /\ SameOutcomes /\ WaitWellTyped(input) /\ WaitWellTyped(twin.input)) =>
          /\ calls = twin.calls
          /\ result = twin.result
          /\ result.kind = "event" =>
                DetailValue(result.evt.Detail, "Wait") = JBool(ReportsRunning)
    /\ (Returned /\ ~WaitWellTyped(input)) => (result.kind = "error" /\ calls = <<>>)

\* Two invocations, one with Wait = true and one with Wait = false, that
\* found no RUNNING task and returned the same event.
C12_Witness ==
    /\ BothReturned
    /\ DetailValue(twin.input.Detail, "Wait") = JBool(TRUE)
    /\ DetailValue(input.Detail, "Wait") = JBool(FALSE)
    /\ result.kind = "event"
    /\ result = twin.result
    /\ Made("DescribeTasks")

(***************************************************************************)
(* C13. Every heartbeat call and every complete call carries the           *)
(* AutoScalingGroupName, the LifecycleHookName and the LifecycleActionToken *)
(* of the input event (the empty string for a key the event lacks), and    *)
(* every complete call carries the result CONTINUE.                        *)
(***************************************************************************)
InputString(k) ==
    LET v == DetailValue(input.Detail, k)
    IN IF v[1] = "string" THEN v[2] ELSE ""

AddressedAsInput(req) ==
    /\ req.AutoScalingGroupName = InputString("AutoScalingGroupName")
    /\ req.LifecycleHookName = InputString("LifecycleHookName")
    /\ req.LifecycleActionToken = InputString("LifecycleActionToken")

C13_LifecycleCallsAddressed ==
    /\ \A i \in CallsOf("RecordLifecycleActionHeartbeat") :
          /\ DOMAIN calls[i].arg[1] =
                 {"AutoScalingGroupName", "LifecycleHookName", "LifecycleActionToken"}
          /\ AddressedAsInput(calls[i].arg[1])
    /\ \A i \in CallsOf("CompleteLifecycleAction") :
          /\ DOMAIN calls[i].arg[1] =
                 {"AutoScalingGroupName", "LifecycleHookName", "LifecycleActionToken",
                  "LifecycleActionResult"}
          /\ AddressedAsInput(calls[i].arg[1])
          /\ calls[i].arg[1].LifecycleActionResult = "CONTINUE"

\* A complete call for the second token of the second group, made in the
\* invocation after one that sent a heartbeat.
C13_Witness ==
    /\ nInvocations = 2
    /\ lifecycle.heartbeats = 1
    /\ Made("CompleteLifecycleAction")
    /\ InputString("LifecycleActionToken") = "token-2"
    /\ InputString("AutoScalingGroupName") = "asg-2"
    /\ calls[Len(calls)].arg[1].LifecycleActionToken = "token-2"

(***************************************************************************)
(* C14. For a lifecycle event of a registered instance, the execution      *)
(* eventually reaches "Succeeded" with a successful complete call as the   *)
(* last call of its last invocation, unless one of its calls fails or the  *)
(* timeout fires; the tasks of the instance are stopped by and by, and     *)
(* none is started.                                                        *)
(***************************************************************************)
SucceededByComplete ==
    /\ smState = "Succeeded"
    /\ calls # <<>>
    /\ calls[Len(calls)].api = "CompleteLifecycleAction"
    /\ calls[Len(calls)].ok
    /\ lifecycle.completed

ACallFailed == smState = "TaskFailed" /\ \E i \in 1..Len(calls) : ~calls[i].ok

C14_EventuallySucceeded ==
    <>(SucceededByComplete \/ ACallFailed \/ smState = "TimedOut")

\* An execution that polled more often than is counted, sending heartbeats,
\* and then succeeded.
C14_Witness ==
    /\ SucceededByComplete
    /\ lifecycle.heartbeats = MaxInvocations
    /\ \A i \in 1..Len(calls) : calls[i].ok

(***************************************************************************)
(* C15. An invocation makes at most one lifecycle call, heartbeat or       *)
(* complete, and it is the invocation's last call. Once an invocation has  *)
(* made a complete call, it makes no further call and the execution starts *)
(* no further invocation: the execution makes at most one complete call,   *)
(* in its last invocation, and no heartbeat call after it.                 *)
(***************************************************************************)
LifecycleCallIsLast ==
    /\ Cardinality({i \in 1..Len(calls) : calls[i].api \in LifecycleApis}) <= 1
    /\ \A i \in 1..Len(calls) : calls[i].api \in LifecycleApis => i = Len(calls)

NothingAfterComplete ==
    Made("CompleteLifecycleAction") =>
        /\ calls' = calls
        /\ input' = input
        /\ nInvocations' = nInvocations
        /\ pc' \in {"done", "idle"}

C15_CompleteEndsPolling == [][LifecycleCallIsLast' /\ NothingAfterComplete]_vars

\* An execution that sent a heartbeat in its first invocation, completed in
\* its second, and succeeded.
C15_Witness ==
    /\ smState = "Succeeded"
    /\ nInvocations = 2
    /\ lifecycle = [heartbeats |-> 1, completed |-> TRUE]
    /\ calls[Len(calls)].api = "CompleteLifecycleAction"

(***************************************************************************)
(* C16. Whatever steps towards STOPPED the tasks take between the task     *)
(* calls of an invocation, when the invocation has made a complete call no *)
(* task of the container instance has last status RUNNING.                 *)
(***************************************************************************)
\* The tasks ECS knows on the container instance that call d found.
TasksOn(d) == {t \in Tasks : tasks[t].present /\ tasks[t].ci = MatchArn(d)}

C16_NoTaskRunningAtComplete ==
    Made("CompleteLifecycleAction") =>
        \A d \in CallsOf("DescribeContainerInstances") :
            (\E s \in ContainerInstanceStatuses : MatchDescribedAs(d, s)) =>
                \A t \in TasksOn(d) : tasks[t].last # "RUNNING"

\* A complete call after a task check in which a listed task was stopped,
\* and another forgotten, before they were described.
C16_Witness ==
    /\ Made("CompleteLifecycleAction")
    /\ \E l \in CallsOf("ListTasksPages") : Len(CollectPages(calls[l].out)) = 2
    /\ \E i \in CallsOf("DescribeTasks") : Len(calls[i].out) < Len(calls[i].arg[2])
    /\ \E d \in CallsOf("DescribeContainerInstances") :
          /\ \E s \in ContainerInstanceStatuses : MatchDescribedAs(d, s)
          /\ TasksOn(d) # {}

(***************************************************************************)
(* C17. No step changes the EC2 instance id of a container instance. The   *)
(* status of a container instance changes only in a successful             *)
(* UpdateContainerInstancesState call of handler, only to DRAINING, and    *)
(* only for a container instance of the event's EC2 instance. The calls of *)
(* handler are the eight of main.go, none of which writes a task, and no   *)
(* step of an invocation changes a task.                                   *)
(***************************************************************************)
HandlerApis ==
    LocatingApis \cup TaskCheckApis \cup LifecycleApis \cup {"UpdateContainerInstancesState"}

StatusWrite(c) ==
    /\ ciStatus'[c] = ContainerInstanceStatusDraining
    /\ ciEc2[c] = EventInstanceId
    /\ Len(calls') = Len(calls) + 1
    /\ calls'[Len(calls')].api = "UpdateContainerInstancesState"
    /\ calls'[Len(calls')].ok
    /\ calls'[Len(calls')].arg[2] = <<c>>

FrameStep ==
    /\ ciEc2' = ciEc2
    /\ \A c \in ContainerInstances : ciStatus'[c] # ciStatus[c] => StatusWrite(c)
    /\ \A i \in 1..Len(calls') : calls'[i].api \in HandlerApis
    /\ (pc' # pc \/ calls' # calls \/ result' # result) => tasks' = tasks

C17_OnlyTheInstanceIsDrained == [][FrameStep]_vars

\* The second container instance is the event's and was set DRAINING; the
\* first one, of another EC2 instance, is still REGISTERING.
C17_Witness ==
    /\ Returned
    /\ \E i \in CallsOf("UpdateContainerInstancesState") : calls[i].ok /\ calls[i].arg[2] = <<2>>
    /\ ciEc2[1] # EventInstanceId
    /\ ciStatus[1] = "REGISTERING"
    /\ ciStatus[2] = ContainerInstanceStatusDraining

(***************************************************************************)
(* C18. The execution never reaches "Failed": every event that handler     *)
(* returns has a boolean detail.Wait, so the choice after it goes to       *)
(* "Wait" or to "Succeeded". An execution that ends without success was    *)
(* timed out, or its last invocation returned no event.                    *)
(***************************************************************************)
C18_FailedIsUnreachable ==
    /\ smState # "Failed"
    /\ result.kind = "event" => WaitIsBoolean
    /\ smState = "Wait?" =>
          /\ result.kind = "event"
          /\ smData = result.evt
          /\ WaitChoice(smData) \in {"Wait", "Succeeded"}
    /\ (Ended /\ smState # "Succeeded") =>
          \/ smState = "TimedOut"
          \/ smState = "TaskFailed" /\ result.kind \in {"error", "panic"}

\* The choice has sent the event of a first invocation, whose input had no
\* Wait, on to "Wait".
C18_Witness ==
    /\ smState = "Wait"
    /\ nInvocations = 1
    /\ DetailValue(input.Detail, "Wait") = JNull
    /\ result.kind = "event"
    /\ DetailValue(smData.Detail, "Wait") = JBool(TRUE)

====
